---- MODULE Spec2Model ----
(***************************************************************************)
(* Model of the deployment-manifest editor (App.vue, ModuleList.vue,       *)
(* PlatformConfig.vue).                                                    *)
(*                                                                         *)
(* A JavaScript string is a sequence of one-character strings, so that     *)
(* split('_'), startsWith, trim and concatenation are computed on the      *)
(* characters.  A JavaScript object is a record whose DOMAIN is the set of *)
(* the properties it has, so an absent property (undefined) is a field     *)
(* that is not in the DOMAIN.  The manifest objects live in a heap of      *)
(* references: config and originalConfig are references, JSON.parse and    *)
(* JSON.parse(JSON.stringify(x)) allocate, the spread copy of              *)
(* PlatformConfig.vue shares the arrays of the object it copies.           *)
(***************************************************************************)
EXTENDS Integers, Sequences, FiniteSets, TLC

VARIABLES
    heap,            \* the manifest objects and their arrays, by reference
    config,          \* App.vue config.value: a reference, or Null
    originalConfig,  \* App.vue originalConfig.value: a reference, or Null
    jsonError,       \* App.vue jsonError.value: TRUE when a message is set
    modules,         \* ModuleList.vue modules.value: the view-records
    prInFlight,      \* handlePrUrlSubmit calls waiting for their response
    steps,           \* handler invocations since construction
    loaded,          \* the manifest as parsed by the last successful load
    op,              \* the handler that ran last, with its arguments
    pre,             \* config.value and modules.value as that handler found them
    calls,           \* the handleModuleUpdate calls that handler made, in order
    shouldSortModules, \* App.vue shouldSortModules.value
    cache,           \* localStorage: the cached tags, by module identifier
    bulk,            \* the updateAllGitHubModules call in progress, if any
    fetches          \* the fetchGitHubTags calls waiting for their response

vars == <<heap, config, originalConfig, jsonError, modules, prInFlight,
          steps, loaded, op, pre, calls, shouldSortModules, cache, bulk,
          fetches>>

-----------------------------------------------------------------------------
(* Bounds of the model.                                                    *)

\* module records in a pasted manifest, over both sources
MaxModules == 2
\* handler invocations explored after construction
MaxSteps == 2
\* pull-request fetches outstanding at a time
MaxInFlight == 1

-----------------------------------------------------------------------------
(* Strings.                                                                *)

Null == 0

idA == <<"a">>
idAB == <<"a", "b">>
idA_B == <<"a", "_", "b">>
ver1 == <<"1", ".", "0", ".", "0">>
ver2 == <<"2", ".", "0", ".", "0">>
dotZip == <<".", "z", "i", "p">>
zip1 == ver1 \o dotZip
zip2 == ver2 \o dotZip
\* a file name whose suffix itself holds a '_' (\w of the artifact pattern)
zipX == ver1 \o <<"-", "p", "_", "r">> \o dotZip
empty == <<>>
DELETE == <<"_", "_", "D", "E", "L", "E", "T", "E", "_", "_">>

\* s.indexOf(ch) + 1, 0 when ch does not occur
indexOf(s, ch) ==
    IF \E i \in 1..Len(s) : s[i] = ch
    THEN CHOOSE i \in 1..Len(s) : s[i] = ch /\ \A j \in 1..(i - 1) : s[j] # ch
    ELSE 0

\* s.split('_'): the segments between the underscores, at least one
RECURSIVE split(_)
split(s) ==
    LET i == indexOf(s, "_")
    IN IF i = 0 THEN <<s>>
       ELSE <<SubSeq(s, 1, i - 1)>> \o split(SubSeq(s, i + 1, Len(s)))

\* s.startsWith(p)
startsWith(s, p) == Len(p) <= Len(s) /\ SubSeq(s, 1, Len(p)) = p

\* the code points String.prototype.trim removes: WhiteSpace (TAB, VT, FF,
\* ZWNBSP and the space separators) and LineTerminator (LF, CR, LS, PS) of
\* ECMAScript.  A character that cannot be written here is its code point
WhiteSpace ==
    {"\t", "U+000B", "\f", "U+FEFF",
     " ", "U+00A0", "U+1680", "U+2000", "U+2001", "U+2002", "U+2003", "U+2004",
     "U+2005", "U+2006", "U+2007", "U+2008", "U+2009", "U+200A", "U+202F",
     "U+205F", "U+3000",
     "\n", "\r", "U+2028", "U+2029"}

\* s.trim(): the white space at both ends removed
RECURSIVE trimStart(_)
trimStart(s) ==
    IF s # <<>> /\ Head(s) \in WhiteSpace THEN trimStart(Tail(s)) ELSE s

RECURSIVE trimEnd(_)
trimEnd(s) ==
    IF s # <<>> /\ s[Len(s)] \in WhiteSpace
    THEN trimEnd(SubSeq(s, 1, Len(s) - 1)) ELSE s

trim(s) == trimEnd(trimStart(s))

-----------------------------------------------------------------------------
(* Manifests (types.ts ConfigurationData), as values.                      *)

GithubReleases == "GithubReleases"
AzureBlob == "AzureBlob"
ModuleType == {GithubReleases, AzureBlob}

\* The properties of a source declaration or of a module record are kept in
\* the order they were created in.  A record of the model stands for an object
\* whose properties are in the order of types.ts; an object that has them in
\* another order has that order, a sequence of its keys, under OwnPropertyKeys
OwnPropertyKeys == "[[OwnPropertyKeys]]"

TypeOrder == <<"Name", "Container", "ServiceUri", "ModuleSources", "Modules",
               "Id", "Version", "BlobName">>

\* the keys of an object in the order of types.ts
typeOrderOf(x) == SelectSeq(TypeOrder, LAMBDA k : k \in DOMAIN x)

\* the keys of an object in the order JSON.stringify and the spread go
\* through them
ownKeys(x) == IF OwnPropertyKeys \in DOMAIN x THEN x[OwnPropertyKeys]
              ELSE typeOrderOf(x)

\* the object of the properties of x, kept in the order keys
withKeys(x, keys) ==
    LET props == [k \in DOMAIN x \ {OwnPropertyKeys} |-> x[k]]
    IN IF keys = typeOrderOf(props) THEN props
       ELSE (OwnPropertyKeys :> keys) @@ props

\* ModuleBase records a pasted GithubReleases source may hold
GithubPool ==
    { [Id |-> idA],
      [Id |-> idAB, Version |-> ver1],
      [Id |-> idA_B, Version |-> ver1] }

\* ModuleBase records a pasted AzureBlob source may hold
AzurePool ==
    { [BlobName |-> idA \o <<"_">> \o zipX],
      [BlobName |-> idAB \o <<"_">> \o zip1],
      [BlobName |-> idA] }

SeqsUpTo(S, n) == UNION { [1..k -> S] : k \in 0..n }

GithubSource(ms) ==
    [Name |-> GithubReleases, ModuleSources |-> << <<"u">> >>, Modules |-> ms]

AzureSource(ms) ==
    [Name |-> AzureBlob, Container |-> <<"c">>, ServiceUri |-> <<"s">>,
     Modules |-> ms]

\* the Sources arrays of the pasted manifests: one declaration per kind at
\* most, in either order, MaxModules records in all
SourcesPool ==
    LET G == SeqsUpTo(GithubPool, MaxModules)
        A == SeqsUpTo(AzurePool, MaxModules)
    IN    { <<GithubSource(g)>> : g \in G }
     \cup { <<AzureSource(a)>> : a \in A }
     \cup UNION { { <<GithubSource(g), AzureSource(a)>>,
                    <<AzureSource(a), GithubSource(g)>> } :
                  <<g, a>> \in { p \in G \X A : Len(p[1]) + Len(p[2]) <= MaxModules } }

Manifest(srcs) ==
    [ManifestVersion |-> <<"2", ".", "0">>,
     PlatformVersion |-> ver1,
     PlatformImage |-> <<"g", ".", "i", "o", "/", "V", "c">>,
     PlatformImageTag |-> ver1,
     PlatformAssetUrl |-> <<"h">>,
     ModuleSources |-> << <<"m">> >>,
     Sources |-> srcs]

\* a manifest of three records: a module under both kinds, beside a module
\* whose identifier starts with its identifier
PrefixSources ==
    << GithubSource(<< [Id |-> idA, Version |-> ver1] >>),
       AzureSource(<< [BlobName |-> idAB \o <<"_">> \o zip1],
                      [BlobName |-> idA \o <<"_">> \o zip1] >>) >>

\* the documents the paste box is given that JSON.parse accepts
ManifestPool == { Manifest(s) : s \in SourcesPool \cup {PrefixSources} }

\* Sources arrays whose declarations lack optional properties, list their
\* feeds out of order, hold records without an identifier or have their
\* properties in another order than types.ts
OddSources ==
    { << [Name |-> GithubReleases,
          Modules |-> << [Id |-> idAB, Version |-> ver1], [Id |-> idA] >>],
         [Name |-> AzureBlob, Modules |-> << [BlobName |-> idA] >>] >>,
      << [Name |-> GithubReleases, ModuleSources |-> << <<"u">>, <<"t">> >>,
          Modules |-> << [Id |-> idA_B, Version |-> ver1], [Id |-> idA] >>] >>,
      << GithubSource(<< [Version |-> ver1], [Id |-> idAB], [Id |-> idA] >>),
         AzureSource(<< [BlobName |-> <<"_">> \o zip1],
                        [BlobName |-> idA \o <<"_">> \o zip1] >>) >>,
      << withKeys(GithubSource(<< withKeys([Id |-> idAB, Version |-> ver1],
                                           <<"Version", "Id">>),
                                  [Id |-> idA] >>),
                  <<"Modules", "Name", "ModuleSources">>),
         withKeys(AzureSource(<< [BlobName |-> idA \o <<"_">> \o zip1] >>),
                  <<"Name", "ServiceUri", "Container", "Modules">>) >> }

\* the documents of the serializer: those of ManifestPool, the same with two
\* feeds out of order, and the odd ones
SerializerPool ==
    ManifestPool
    \cup { [Manifest(s) EXCEPT !.ModuleSources = << <<"n">>, <<"m">> >>] :
           s \in SourcesPool \cup OddSources }

-----------------------------------------------------------------------------
(* The heap.  objs maps a reference to a ConfigurationData object whose    *)
(* ModuleSources and Sources properties hold array references; arrs maps   *)
(* an array reference to the array.                                        *)

EmptyHeap == [objs |-> <<>>, arrs |-> <<>>]

NoManifest == [absent |-> TRUE]

\* the reference a new object or array gets
fresh(dom) ==
    CHOOSE r \in 1..(Cardinality(dom) + 1) :
        r \notin dom /\ \A q \in 1..(r - 1) : q \in dom

\* the manifest a reference denotes, as a value
Deref(h, r) ==
    IF r = Null THEN NoManifest
    ELSE LET o == h.objs[r]
         IN [o EXCEPT !.ModuleSources = h.arrs[o.ModuleSources],
                      !.Sources = h.arrs[o.Sources]]

\* JSON.parse(text): a new object with new arrays
JSONparse(h, val) ==
    LET a1 == fresh(DOMAIN h.arrs)
        a2 == fresh(DOMAIN h.arrs \cup {a1})
        r == fresh(DOMAIN h.objs)
    IN [heap |-> [objs |-> (r :> [val EXCEPT !.ModuleSources = a1,
                                             !.Sources = a2]) @@ h.objs,
                  arrs |-> (a1 :> val.ModuleSources) @@ (a2 :> val.Sources)
                           @@ h.arrs],
        ref |-> r]

\* a mutant: the copy is the object itself
JSONcloneAlias(h, r) == [heap |-> h, ref |-> r]

\* JSON.parse(JSON.stringify(config.value)): a deep copy
JSONclone(h, r) == JSONparse(h, Deref(h, r))

\* { ...props.config }: a new object that shares the arrays
spread(h, r) ==
    LET n == fresh(DOMAIN h.objs)
    IN [heap |-> [h EXCEPT !.objs = (n :> h.objs[r]) @@ h.objs], ref |-> n]

\* the objects still referenced from roots, and their arrays
collect(h, roots) ==
    LET live == DOMAIN h.objs \cap roots
        used == UNION { {h.objs[r].ModuleSources, h.objs[r].Sources} : r \in live }
    IN [objs |-> [r \in live |-> h.objs[r]],
        arrs |-> [a \in DOMAIN h.arrs \cap used |-> h.arrs[a]]]

-----------------------------------------------------------------------------
(* App.vue handleModuleUpdate.                                             *)

\* Sources.findIndex(s => s.Name === type) + 1
findSourceIndex(srcs, type) ==
    IF \E i \in 1..Len(srcs) : srcs[i].Name = type
    THEN CHOOSE i \in 1..Len(srcs) :
            srcs[i].Name = type /\ \A j \in 1..(i - 1) : srcs[j].Name # type
    ELSE 0

\* type === 'GithubReleases' ? m.Id === moduleId : m.BlobName?.startsWith(moduleId)
moduleMatches(m, type, moduleId) ==
    IF type = GithubReleases
    THEN "Id" \in DOMAIN m /\ m.Id = moduleId
    ELSE "BlobName" \in DOMAIN m /\ startsWith(m.BlobName, moduleId)

\* source.Modules.findIndex(...) + 1
findModuleIndex(ms, type, moduleId) ==
    IF \E i \in 1..Len(ms) : moduleMatches(ms[i], type, moduleId)
    THEN CHOOSE i \in 1..Len(ms) :
            /\ moduleMatches(ms[i], type, moduleId)
            /\ \A j \in 1..(i - 1) : ~moduleMatches(ms[j], type, moduleId)
    ELSE 0

\* ms.splice(index, 1), index counted from 1, 0 standing for findIndex's -1:
\* a negative start counts from the end, so splice(-1, 1) removes the last
splice(ms, index) ==
    LET at == IF index = 0 THEN Len(ms) ELSE index
    IN IF at = 0 THEN ms
       ELSE SubSeq(ms, 1, at - 1) \o SubSeq(ms, at + 1, Len(ms))

\* m[k] = v on an object: the property is set, or added
setProperty(m, k, v) ==
    [f \in DOMAIN m \cup {k} |-> IF f = k THEN v ELSE m[f]]

\* module[k] = v on a module record: a property it has keeps its place, one
\* it has not is added after the others
assign(m, k, v) ==
    withKeys(setProperty(m, k, v),
             IF k \in DOMAIN m THEN ownKeys(m) ELSE Append(ownKeys(m), k))

\* a mutant: an empty value is stored as it is
blobNameOrValue(value, moduleId) == value

\* value || `${moduleId}_`
blobNameOr(value, moduleId) ==
    IF value = empty THEN moduleId \o <<"_">> ELSE value

\* lines 37-55: what the call does to the Modules array of its source
updatedModules(ms, moduleId, type, value) ==
    LET moduleIndex == findModuleIndex(ms, type, moduleId)
    IN IF value = DELETE THEN splice(ms, moduleIndex)
       ELSE IF moduleIndex = 0
       THEN Append(ms, IF type = GithubReleases
                       THEN [Id |-> moduleId, Version |-> value]
                       ELSE [BlobName |-> blobNameOr(value, moduleId)])
       ELSE [ms EXCEPT ![moduleIndex] =
                IF type = GithubReleases
                THEN assign(@, "Version", value)
                ELSE assign(@, "BlobName", blobNameOr(value, moduleId))]

\* the record of one call, for the properties of the calls
callRecord(st, st2, moduleId, type, value) ==
    [moduleId |-> moduleId, type |-> type, value |-> value,
     before |-> Deref(st.heap, st.config).Sources,
     after |-> Deref(st2.heap, st2.config).Sources,
     same |-> Deref(st2.heap, st2.config) = Deref(st.heap, st.config),
     replaced |-> st2.config # st.config]

\* a mutant: a missing source declaration still replaces config.value
handleModuleUpdateNoGuard(st, moduleId, type, value) ==
    IF st.config = Null THEN st
    ELSE LET cl == JSONclone(st.heap, st.config)
             st2 == [st EXCEPT !.heap = cl.heap, !.config = cl.ref]
         IN [st2 EXCEPT !.calls =
                Append(@, callRecord(st, st2, moduleId, type, value))]

\* st = [heap, config, modules, calls]; the handler of 'module-update'
handleModuleUpdate(st, moduleId, type, value) ==
    IF st.config = Null THEN st
    ELSE LET cl == JSONclone(st.heap, st.config)
             newConfig == cl.heap.objs[cl.ref]
             srcs == cl.heap.arrs[newConfig.Sources]
             sourceIndex == findSourceIndex(srcs, type)
         IN IF sourceIndex = 0
            THEN [st EXCEPT !.calls =
                    Append(@, callRecord(st, st, moduleId, type, value))]
            ELSE LET ms == updatedModules(srcs[sourceIndex].Modules,
                                          moduleId, type, value)
                     h2 == [cl.heap EXCEPT !.arrs[newConfig.Sources] =
                              [srcs EXCEPT ![sourceIndex].Modules = ms]]
                     st2 == [st EXCEPT !.heap = h2, !.config = cl.ref]
                 IN [st2 EXCEPT !.calls =
                        Append(@, callRecord(st, st2, moduleId, type, value))]

-----------------------------------------------------------------------------
(* ModuleList.vue: the view-records.                                       *)

\* the identifier updateModules derives from a record; empty when it has none
moduleIdOf(name, m) ==
    IF name = GithubReleases
    THEN IF "Id" \in DOMAIN m THEN m.Id ELSE empty
    ELSE IF "BlobName" \in DOMAIN m THEN split(m.BlobName)[1] ELSE empty

\* the display value updateModules derives from a record
valueOf(name, m) ==
    IF name = GithubReleases
    THEN IF "Version" \in DOMAIN m THEN m.Version ELSE empty
    ELSE IF "BlobName" \in DOMAIN m /\ Len(split(m.BlobName)) > 1
         THEN split(m.BlobName)[2] ELSE empty

RECURSIVE viewModelsOf(_, _)
viewModelsOf(name, ms) ==
    IF ms = <<>> THEN <<>>
    ELSE (IF moduleIdOf(name, Head(ms)) = empty THEN <<>>
          ELSE << [id |-> moduleIdOf(name, Head(ms)),
                   value |-> valueOf(name, Head(ms)),
                   sourceType |-> name] >>)
         \o viewModelsOf(name, Tail(ms))

RECURSIVE viewModelsOfSources(_)
viewModelsOfSources(srcs) ==
    IF srcs = <<>> THEN <<>>
    ELSE viewModelsOf(Head(srcs).Name, Head(srcs).Modules)
         \o viewModelsOfSources(Tail(srcs))

\* updateModules(config): the new value of modules.value
updateModules(cfg) == viewModelsOfSources(cfg.Sources)

\* watch(() => modules.value): the GithubReleases view-records of a new list
\* are given the tags the cache holds for their identifier; an entry of the
\* cache is younger than the 24 hours it is kept
loadCachedTags(mods, cached) ==
    [i \in 1..Len(mods) |->
        IF mods[i].sourceType = GithubReleases /\ mods[i].id \in DOMAIN cached
        THEN setProperty(mods[i], "tags", cached[mods[i].id])
        ELSE mods[i]]

\* the place in the list of the loop of updateAllGitHubModules, while that
\* list is live, of the view-record at index m of modules.value; 0 for none
snapshotOf(b, m) ==
    IF b.pc # "idle" /\ b.live /\ \E j \in DOMAIN b.idx : b.idx[j] = m
    THEN CHOOSE j \in DOMAIN b.idx : b.idx[j] = m
    ELSE 0

\* st = [heap, config, modules, calls, cache, bulk, fetches]
\* modules.value is about to be another array: the view-records the loop and
\* the calls in flight hold are no longer those of the list.  The loop keeps
\* its view-records in snap; a call keeps the place in snap of the
\* view-record it found, when the loop holds it too
staleRefs(st) ==
    LET b == st.bulk
        fs == st.fetches
    IN [st EXCEPT
          !.bulk = IF b.pc # "idle" /\ b.live
                   THEN [b EXCEPT !.snap = [j \in DOMAIN b.idx |->
                                              st.modules[b.idx[j]]],
                                  !.idx = <<>>, !.live = FALSE]
                   ELSE b,
          !.fetches = [n \in DOMAIN fs |->
                         IF fs[n].live
                         THEN [fs[n] EXCEPT !.live = FALSE, !.module = 0,
                                            !.snap = snapshotOf(b, fs[n].module)]
                         ELSE fs[n]]]

\* watch(() => props.config): runs once the handler has returned, when the
\* reference it watches is no longer the one it saw
flushWatcher(st, seen) ==
    IF st.config # seen /\ st.config # Null
    THEN [staleRefs(st) EXCEPT !.modules =
            loadCachedTags(updateModules(Deref(st.heap, st.config)), st.cache)]
    ELSE st

\* modules.value.findIndex(m => m.id === id && m.sourceType === type) + 1
findViewIndex(mods, id, type) ==
    IF \E i \in 1..Len(mods) : mods[i].id = id /\ mods[i].sourceType = type
    THEN CHOOSE i \in 1..Len(mods) :
            /\ mods[i].id = id /\ mods[i].sourceType = type
            /\ \A j \in 1..(i - 1) : ~(mods[j].id = id /\ mods[j].sourceType = type)
    ELSE 0

\* modules.value.find(m => m.id === id): its index, 0 when there is none
findViewById(mods, id) ==
    IF \E i \in 1..Len(mods) : mods[i].id = id
    THEN CHOOSE i \in 1..Len(mods) :
            mods[i].id = id /\ \A j \in 1..(i - 1) : mods[j].id # id
    ELSE 0

\* handleInputChange(moduleId, type, value)
handleInputChange(st, moduleId, type, value) ==
    LET trimmedValue == trim(value)
        i == findViewIndex(st.modules, moduleId, type)
        st1 == IF i = 0 THEN st
               ELSE [st EXCEPT !.modules[i].value = trimmedValue]
        fullValue == IF type = GithubReleases THEN trimmedValue
                     ELSE moduleId \o <<"_">> \o trimmedValue
    IN handleModuleUpdate(st1, moduleId, type, fullValue)

\* fetchGitHubTags(moduleId, true) up to its request: a call in flight is
\* [moduleId, module, live, snap, by], module the index in modules.value of
\* the view-record it found while live
fetchGitHubTags(st, moduleId, by) ==
    LET i == findViewById(st.modules, moduleId)
    IN IF i = 0 THEN st
       ELSE [st EXCEPT !.modules[i] = setProperty(@, "isLoadingTags", TRUE),
                       !.fetches = Append(@, [moduleId |-> moduleId,
                                              module |-> i, live |-> TRUE,
                                              snap |-> 0, by |-> by])]

\* moveModule(moduleId, fromType, toType).  The watcher of props.config runs
\* after every move of a listed module, so the view-records held elsewhere
\* are taken off the list at the splice; the call for a move to
\* GithubReleases is made before the new view-record is pushed
moveModule(st, moduleId, fromType, toType) ==
    LET i == findViewIndex(st.modules, moduleId, fromType)
        removed == IF i = 0 THEN st.modules ELSE splice(st.modules, i)
        base == [id |-> moduleId, value |-> empty, sourceType |-> toType]
        newModule == IF toType = GithubReleases /\ moduleId \in DOMAIN st.cache
                     THEN setProperty(base, "tags", st.cache[moduleId])
                     ELSE base
        st0 == [staleRefs(st) EXCEPT !.modules = removed]
        t == findViewById(removed, moduleId)
        found == IF i # 0 /\ t >= i THEN t + 1 ELSE t
        stF == IF toType = GithubReleases /\ t # 0
               THEN [fetchGitHubTags(st0, moduleId, "move") EXCEPT
                       !.fetches[Len(st0.fetches) + 1] =
                          [@ EXCEPT !.live = FALSE, !.module = 0,
                                    !.snap = snapshotOf(st.bulk, found)]]
               ELSE st0
        st1 == [stF EXCEPT !.modules = Append(@, newModule)]
        st2 == handleModuleUpdate(st1, moduleId, fromType, DELETE)
    IN handleModuleUpdate(st2, moduleId, toType, empty)

-----------------------------------------------------------------------------
(* PlatformConfig.vue updateField and App.vue handlePlatformUpdate.        *)

PlatformFields ==
    {"ManifestVersion", "PlatformVersion", "PlatformImage", "PlatformImageTag",
     "PlatformAssetUrl"}

\* updateField(field, value) for a string field, then the handler of 'update':
\* config.value = newConfig
updateField(st, field, value) ==
    LET sp == spread(st.heap, st.config)
    IN [st EXCEPT !.heap = [sp.heap EXCEPT !.objs[sp.ref][field] = value],
                  !.config = sp.ref]

\* updateField('ModuleSources', lines): the new object gets the new array
updateModuleSources(st, lines) ==
    LET sp == spread(st.heap, st.config)
        a == fresh(DOMAIN sp.heap.arrs)
    IN [st EXCEPT !.heap = [objs |-> [sp.heap.objs EXCEPT
                                        ![sp.ref].ModuleSources = a],
                            arrs |-> (a :> lines) @@ sp.heap.arrs],
                  !.config = sp.ref]

-----------------------------------------------------------------------------
(* ModuleList.vue handlePrUrlSubmit, after the response has arrived.       *)

\* the file names the artifact pattern captures from a pull-request body
ArtifactPool ==
    { idA \o <<"_">> \o zip2,
      idAB \o <<"_">> \o zipX,
      <<"b", "_">> \o zip2 }

\* what the fetch of the pull request settles with: a rejection, a
\* non-success status, a body without an artifact URL, a body with one
PrResponses ==
    { [rejected |-> TRUE, ok |-> FALSE, artifact |-> empty],
      [rejected |-> FALSE, ok |-> FALSE, artifact |-> empty],
      [rejected |-> FALSE, ok |-> TRUE, artifact |-> empty] }
    \cup { [rejected |-> FALSE, ok |-> TRUE, artifact |-> f] : f \in ArtifactPool }

\* how handlePrUrlSubmit ends for a response: the message it alerts, without
\* the identifier, or "found".  A rejected fetch alerts the message of its
\* error; a module that the move took off the list is not found after it
prOutcome(st, resp) ==
    IF resp.rejected THEN "Failed to fetch"
    ELSE IF ~resp.ok THEN "Failed to fetch PR description"
    ELSE IF resp.artifact = empty THEN "No artifact URL found in PR description"
    ELSE LET moduleId == split(resp.artifact)[1]
             e == findViewById(st.modules, moduleId)
         IN IF e = 0 THEN "not found in the configuration"
            ELSE LET st1 == IF st.modules[e].sourceType = GithubReleases
                            THEN flushWatcher(moveModule(st, moduleId,
                                                         GithubReleases, AzureBlob),
                                              st.config)
                            ELSE st
                 IN IF findViewById(st1.modules, moduleId) = 0
                    THEN "not found after move"
                    ELSE "found"

\* a mutant: a module that is not in the list is created under AzureBlob
importArtifactCreates(st, fullFileName) ==
    handleModuleUpdate(st, split(fullFileName)[1], AzureBlob, fullFileName)

\* lines 450-479, for a body that names an artifact; the watcher runs at
\* nextTick() when the module was moved
importArtifact(st, fullFileName) ==
    LET moduleId == split(fullFileName)[1]
        e == findViewById(st.modules, moduleId)
    IN IF e = 0 THEN st
       ELSE LET fileName == split(fullFileName)[2]
                st1 == IF st.modules[e].sourceType = GithubReleases
                       THEN flushWatcher(moveModule(st, moduleId, GithubReleases,
                                                    AzureBlob), st.config)
                       ELSE st
                u == findViewById(st1.modules, moduleId)
            IN IF u = 0 THEN st1
               ELSE LET st2 == handleInputChange(st1, moduleId, AzureBlob, fileName)
                    IN flushWatcher([st2 EXCEPT !.modules[u].value = fileName],
                                    st1.config)

-----------------------------------------------------------------------------
(* App.vue generateDiffDescription.  An entry of the list is a record of    *)
(* what its line of text carries.                                          *)

\* the value of a property that is not there, and the text shown for it
Undefined == <<"undefined">>
None == <<"(", "n", "o", "n", "e", ")">>

\* m[k] of JavaScript
get(m, k) == IF k \in DOMAIN m THEN m[k] ELSE Undefined

\* x || y for strings: y when x is undefined or empty
orElse(x, y) == IF x = Undefined \/ x = empty THEN y ELSE x

\* the sequences of a sequence, one after the other
RECURSIVE Concat(_)
Concat(ss) == IF ss = <<>> THEN <<>> ELSE Head(ss) \o Concat(Tail(ss))

\* every module record with the Name of its source, in stored order
flatRecords(srcs) ==
    Concat([i \in 1..Len(srcs) |->
              [j \in 1..Len(srcs[i].Modules) |->
                 [Name |-> srcs[i].Name, module |-> srcs[i].Modules[j]]]])

\* a mutant: the Platform Image Tag is compared with the Platform Image
fieldChangesShifted(cfg, orig) ==
    LET entry(label, a, b) ==
            IF cfg[b] # orig[a]
            THEN << [kind |-> "field", label |-> label,
                     old |-> orig[a], new |-> cfg[b]] >>
            ELSE <<>>
    IN entry("Manifest Version", "ManifestVersion", "ManifestVersion")
       \o entry("Platform Version", "PlatformVersion", "PlatformVersion")
       \o entry("Platform Image", "PlatformImage", "PlatformImage")
       \o entry("Platform Image Tag", "PlatformImage", "PlatformImageTag")
       \o entry("Platform Asset URL", "PlatformAssetUrl", "PlatformAssetUrl")

\* lines 141-165: the platform fields, then the first of the module sources
fieldChanges(cfg, orig) ==
    LET entry(label, f) ==
            IF cfg[f] # orig[f]
            THEN << [kind |-> "field", label |-> label,
                     old |-> orig[f], new |-> cfg[f]] >>
            ELSE <<>>
        first(a) == IF a = <<>> THEN Undefined ELSE a[1]
    IN entry("Manifest Version", "ManifestVersion")
       \o entry("Platform Version", "PlatformVersion")
       \o entry("Platform Image", "PlatformImage")
       \o entry("Platform Image Tag", "PlatformImageTag")
       \o entry("Platform Asset URL", "PlatformAssetUrl")
       \o (IF first(cfg.ModuleSources) # first(orig.ModuleSources)
           THEN << [kind |-> "field", label |-> "Module Sources",
                    old |-> first(orig.ModuleSources),
                    new |-> first(cfg.ModuleSources)] >>
           ELSE <<>>)

\* getVersion(module, type)
getVersion(m, type) ==
    IF type = GithubReleases THEN orElse(get(m, "Version"), None)
    ELSE IF orElse(get(m, "BlobName"), empty) = empty THEN None
    ELSE IF Len(split(m.BlobName)) > 1 THEN split(m.BlobName)[2] ELSE None

\* module.Id || module.BlobName?.split('_')[0] || ''
diffModuleId(m) ==
    orElse(get(m, "Id"),
           IF "BlobName" \in DOMAIN m THEN split(m.BlobName)[1] ELSE empty)

\* lines 191-202: the record Modules.find gives in the last original source
\* that has one
findOriginal(origSrcs, moduleId) ==
    LET match(name, m) ==
            IF name = GithubReleases THEN get(m, "Id") = moduleId
            ELSE "BlobName" \in DOMAIN m /\ startsWith(m.BlobName, moduleId)
        hits == { i \in 1..Len(origSrcs) :
                    \E j \in 1..Len(origSrcs[i].Modules) :
                       match(origSrcs[i].Name, origSrcs[i].Modules[j]) }
        last == CHOOSE i \in hits : \A k \in hits : k <= i
        ms == origSrcs[last].Modules
    IN IF hits = {} THEN [found |-> FALSE]
       ELSE [found |-> TRUE, type |-> origSrcs[last].Name,
             module |-> ms[CHOOSE j \in 1..Len(ms) :
                              /\ match(origSrcs[last].Name, ms[j])
                              /\ \A k \in 1..(j - 1) :
                                    ~match(origSrcs[last].Name, ms[k])]]

\* lines 187-222: the entry of one current record, if it has one
moduleChange(name, m, origSrcs) ==
    LET moduleId == diffModuleId(m)
        o == findOriginal(origSrcs, moduleId)
        change(old, new) ==
            << [kind |-> "changed", id |-> moduleId, old |-> old, new |-> new] >>
    IN IF ~o.found
       THEN << [kind |-> "added", id |-> moduleId, to |-> name] >>
       ELSE IF o.type # name
       THEN << [kind |-> "moved", id |-> moduleId, from |-> o.type, to |-> name,
                old |-> getVersion(o.module, o.type),
                new |-> getVersion(m, name)] >>
       ELSE IF name = GithubReleases
       THEN IF get(o.module, "Version") # get(m, "Version")
            THEN change(orElse(get(o.module, "Version"), None),
                        orElse(get(m, "Version"), None))
            ELSE <<>>
       ELSE IF getVersion(m, name) # getVersion(o.module, name)
            THEN change(getVersion(o.module, name), getVersion(m, name))
            ELSE <<>>

\* generateDiffDescription(): the entries in the order they are pushed
generateDiffDescription(cfg, orig) ==
    LET cur == flatRecords(cfg.Sources)
        old == flatRecords(orig.Sources)
        processedModules == { diffModuleId(cur[i].module) : i \in 1..Len(cur) }
    IN fieldChanges(cfg, orig)
       \o Concat([i \in 1..Len(cur) |->
                    moduleChange(cur[i].Name, cur[i].module, orig.Sources)])
       \o Concat([i \in 1..Len(old) |->
                    IF diffModuleId(old[i].module) \in processedModules THEN <<>>
                    ELSE << [kind |-> "removed",
                             id |-> diffModuleId(old[i].module),
                             from |-> old[i].Name] >>])

-----------------------------------------------------------------------------
(* App.vue generateJson and ModuleList.vue sortedModules.  The text is the  *)
(* list of the key/value pairs JSON.stringify writes, in the order it       *)
(* writes them; the properties of a stored object are written in the order  *)
(* the object has them in.                                                  *)

\* the characters of the model in the order of String.prototype.localeCompare:
\* one after the other the groups of characters that are the same letter, a
\* small letter before its capital
Collation ==
    << <<" ">>, <<"_">>, <<"-">>, <<".">>, <<"/">>, <<"0">>, <<"1">>, <<"2">>,
       <<"a">>, <<"b">>, <<"c">>, <<"d", "D">>, <<"e", "E">>, <<"g">>, <<"h">>,
       <<"i">>, <<"l", "L">>, <<"m">>, <<"n">>, <<"p">>, <<"r">>, <<"s">>,
       <<"t", "T">>, <<"u">>, <<"v">>, <<"z">> >>

\* the same characters in the order of their UTF-16 code units, every
\* character a group of its own
CodeUnits ==
    << <<" ">>, <<"-">>, <<".">>, <<"/">>, <<"0">>, <<"1">>, <<"2">>, <<"D">>,
       <<"E">>, <<"L">>, <<"T">>, <<"_">>, <<"a">>, <<"b">>, <<"c">>, <<"d">>,
       <<"e">>, <<"g">>, <<"h">>, <<"i">>, <<"l">>, <<"m">>, <<"n">>, <<"p">>,
       <<"r">>, <<"s">>, <<"t">>, <<"u">>, <<"v">>, <<"z">> >>

\* a comes before b in the order given: the first place where the groups of
\* their characters differ decides, a text being before those it begins; when
\* no group differs, the first place where the characters differ decides
lessBy(a, b, alpha) ==
    LET group(c) == CHOOSE i \in 1..Len(alpha) :
                        \E j \in 1..Len(alpha[i]) : alpha[i][j] = c
        inGroup(c) == CHOOSE j \in 1..Len(alpha[group(c)]) :
                        alpha[group(c)][j] = c
        n == IF Len(a) < Len(b) THEN Len(a) ELSE Len(b)
        sameLetters == /\ Len(a) = Len(b)
                       /\ \A i \in 1..n : group(a[i]) = group(b[i])
    IN \/ \E i \in 1..n :
             /\ \A j \in 1..(i - 1) : group(a[j]) = group(b[j])
             /\ group(a[i]) < group(b[i])
       \/ /\ Len(a) < Len(b)
          /\ \A i \in 1..n : group(a[i]) = group(b[i])
       \/ /\ sameLetters
          /\ \E i \in 1..n :
                /\ \A j \in 1..(i - 1) : a[j] = b[j]
                /\ inGroup(a[i]) < inGroup(b[i])

\* a mutant: the array is left in the order it has
sortByKeyNone(items, alpha) == items

\* a mutant: a sort that turns the order of equal keys around
sortByKeyUnstable(items, alpha) ==
    LET n == Len(items)
        pos(i) == 1 + Cardinality({ j \in 1..n :
                                      lessBy(items[j].k, items[i].k, alpha) })
                    + Cardinality({ j \in (i + 1)..n : items[j].k = items[i].k })
    IN [p \in 1..n |-> items[CHOOSE i \in 1..n : pos(i) = p]]

\* Array.prototype.sort on the items [k, v] by their keys k: stable
sortByKey(items, alpha) ==
    LET n == Len(items)
        pos(i) == 1 + Cardinality({ j \in 1..n :
                                      lessBy(items[j].k, items[i].k, alpha) })
                    + Cardinality({ j \in 1..(i - 1) : items[j].k = items[i].k })
    IN [p \in 1..n |-> items[CHOOSE i \in 1..n : pos(i) = p]]

\* the values of the items sorted by their keys
sortedValues(vals, keys, alpha) ==
    LET sorted == sortByKey([i \in 1..Len(vals) |-> [k |-> keys[i], v |-> vals[i]]],
                            alpha)
    IN [i \in 1..Len(vals) |-> sorted[i].v]

\* getModuleId(module) of generateJson
getModuleId(m) ==
    IF orElse(get(m, "Id"), empty) # empty THEN m.Id
    ELSE IF "BlobName" \in DOMAIN m THEN split(m.BlobName)[1] ELSE empty

\* lines 79-104: the object built for a source, its properties in the order
\* of the literal; the module records are those of the source
sortedSource(source) ==
    LET ms == source.Modules
        Modules == sortedValues(ms, [i \in 1..Len(ms) |-> getModuleId(ms[i])],
                                Collation)
        keep(rec, keys) == [k \in keys \cap DOMAIN rec |-> rec[k]]
    IN IF source.Name = AzureBlob
       THEN keep(source, {"Name", "Container", "ServiceUri"})
            @@ [Modules |-> Modules]
       ELSE [Name |-> source.Name,
             ModuleSources |->
                IF "ModuleSources" \in DOMAIN source
                THEN sortedValues(source.ModuleSources, source.ModuleSources,
                                  CodeUnits)
                ELSE <<>>,
             Modules |-> Modules]

\* lines 77-78: Sources.sort by Name; 'AzureBlob' is before 'GithubReleases'
sortedSources(srcs) ==
    SelectSeq(srcs, LAMBDA x : x.Name = AzureBlob)
    \o SelectSeq(srcs, LAMBDA x : x.Name # AzureBlob)

\* the pairs of the properties an object has, in the order of the keys given
toPairs(rec, keys) ==
    Concat([i \in 1..Len(keys) |->
              IF keys[i] \in DOMAIN rec THEN << <<keys[i], rec[keys[i]]>> >>
              ELSE <<>>])

\* the object a list of pairs denotes: a key written twice has the place of
\* the first pair and the value of the last
fromPairs(ps) ==
    [k \in { ps[i][1] : i \in 1..Len(ps) } |->
        ps[CHOOSE i \in 1..Len(ps) :
              ps[i][1] = k /\ \A j \in (i + 1)..Len(ps) : ps[j][1] # k][2]]

\* the keys of a list of pairs in the order they are first written in
RECURSIVE keysOfPairs(_)
keysOfPairs(ps) ==
    IF ps = <<>> THEN <<>>
    ELSE LET before == keysOfPairs(SubSeq(ps, 1, Len(ps) - 1))
             k == ps[Len(ps)][1]
         IN IF \E i \in 1..Len(before) : before[i] = k THEN before
            ELSE Append(before, k)

\* the source declaration or module record a list of pairs denotes
objectOfPairs(ps) == withKeys(fromPairs(ps), keysOfPairs(ps))

\* JSON.stringify of lines 111-119: the top-level keys in the order of the
\* literal, those of the objects below in the order the objects have them
stringify(val) ==
    LET source(x) ==
            toPairs([x EXCEPT !.Modules =
                        [j \in 1..Len(x.Modules) |->
                           toPairs(x.Modules[j], ownKeys(x.Modules[j]))]],
                    ownKeys(x))
    IN toPairs([val EXCEPT !.Sources =
                   [i \in 1..Len(val.Sources) |-> source(val.Sources[i])]],
               <<"ManifestVersion", "PlatformVersion", "PlatformImage",
                 "PlatformImageTag", "PlatformAssetUrl", "ModuleSources",
                 "Sources">>)

\* JSON.parse of a text generateJson wrote, as a value
parseText(text) ==
    LET source(ps) ==
            LET x == objectOfPairs(ps)
            IN [x EXCEPT !.Modules =
                   [j \in 1..Len(x.Modules) |-> objectOfPairs(x.Modules[j])]]
        val == fromPairs(text)
    IN [val EXCEPT !.Sources =
           [i \in 1..Len(val.Sources) |-> source(val.Sources[i])]]

\* generateJson() for a stored manifest: the text, and the heap it leaves
generateJson(h, ref, sort) ==
    LET cl == JSONclone(h, ref)
        newConfig == cl.heap.objs[cl.ref]
        inPlace == sortedSources(cl.heap.arrs[newConfig.Sources])
        a1 == fresh(DOMAIN cl.heap.arrs)
        a2 == fresh(DOMAIN cl.heap.arrs \cup {a1})
        h2 == IF ~sort THEN cl.heap
              ELSE [objs |-> [cl.heap.objs EXCEPT ![cl.ref].Sources = a1,
                                                  ![cl.ref].ModuleSources = a2],
                    arrs |-> (a1 :> [i \in 1..Len(inPlace) |->
                                        sortedSource(inPlace[i])])
                             @@ (a2 :> sortedValues(
                                          cl.heap.arrs[newConfig.ModuleSources],
                                          cl.heap.arrs[newConfig.ModuleSources],
                                          CodeUnits))
                             @@ [cl.heap.arrs EXCEPT ![newConfig.Sources] = inPlace]]
    IN [heap |-> h2, text |-> stringify(Deref(h2, cl.ref))]

\* a mutant: modules.value itself is sorted
sortedModulesInPlace(mods, sortEnabled) ==
    LET sorted == sortedValues(mods, [i \in 1..Len(mods) |-> mods[i].id], Collation)
    IN IF ~sortEnabled THEN [modules |-> mods, result |-> mods]
       ELSE [modules |-> sorted, result |-> sorted]

\* sortedModules: the list it gives, and modules.value after it
sortedModules(mods, sortEnabled) ==
    IF ~sortEnabled THEN [modules |-> mods, result |-> mods]
    ELSE [modules |-> mods,
          result |-> sortedValues(mods, [i \in 1..Len(mods) |-> mods[i].id],
                                  Collation)]

-----------------------------------------------------------------------------
(* ModuleList.vue fetchGitHubTags and updateAllGitHubModules.  A call in   *)
(* progress is a record of fetches: the identifier, the index in           *)
(* modules.value of the view-record the call found, and its caller.  bulk   *)
(* holds the loop of updateAllGitHubModules: the view-records it filtered   *)
(* are those of modules.value at idx while live, the copies in snap once    *)
(* modules.value is another array.                                          *)

Digits == {"0", "1", "2", "3", "4", "5", "6", "7", "8", "9"}

\* \w of the patterns: [A-Za-z0-9_]
WordChars ==
    Digits \cup {"_"}
    \cup {"a", "b", "c", "d", "e", "f", "g", "h", "i", "j", "k", "l", "m",
          "n", "o", "p", "q", "r", "s", "t", "u", "v", "w", "x", "y", "z"}
    \cup {"A", "B", "C", "D", "E", "F", "G", "H", "I", "J", "K", "L", "M",
          "N", "O", "P", "Q", "R", "S", "T", "U", "V", "W", "X", "Y", "Z"}

\* versionRegex of isValidVersion: /^\d+\.\d+\.\d+$/
versionRegex(v) ==
    \E i, j \in 1..Len(v) :
        /\ 1 < i /\ i + 1 < j /\ j < Len(v)
        /\ v[i] = "." /\ v[j] = "."
        /\ \A k \in (1..Len(v)) \ {i, j} : v[k] \in Digits

isValidVersion(version) == versionRegex(trim(version))

\* isValidBlobName: /^\d+\.\d+\.\d+(-[\w.-]+)?\.zip$/ on the trimmed text
isValidBlobName(name) ==
    LET t == trim(name)
        n == Len(t) - 4
        body == SubSeq(t, 1, n)
    IN /\ n >= 0
       /\ SubSeq(t, n + 1, Len(t)) = <<".", "z", "i", "p">>
       /\ \/ versionRegex(body)
          \/ \E k \in 2..(n - 1) :
                /\ body[k] = "-"
                /\ versionRegex(SubSeq(body, 1, k - 1))
                /\ \A x \in (k + 1)..n : body[x] \in WordChars \cup {".", "-"}

\* ModuleList.vue hasInvalidInputs: some view-record has an empty value, or
\* one its kind's pattern refuses
hasInvalidInputsOfModuleList(mods) ==
    \E i \in DOMAIN mods :
        LET module == mods[i]
            trimmedValue == trim(module.value)
        IN IF trimmedValue = empty THEN TRUE
           ELSE IF /\ module.sourceType = GithubReleases
                   /\ "tags" \in DOMAIN module /\ module.tags # <<>>
                THEN ~isValidVersion(trimmedValue)
                ELSE IF module.sourceType = GithubReleases
                     THEN ~isValidVersion(trimmedValue)
                     ELSE ~isValidBlobName(trimmedValue)

\* isValidManifestVersion: /^\d+\.\d+$/ on the trimmed text
isValidManifestVersion(version) ==
    LET v == trim(version)
    IN \E i \in 2..(Len(v) - 1) :
          /\ v[i] = "."
          /\ \A k \in (1..Len(v)) \ {i} : v[k] \in Digits

\* isValidPlatformImage: /^[\w.-]+\.\w+\/[\w.-]+(\/[\w.-]+)?$/ on the
\* trimmed text: host, a dot, a word, and one or two path segments
isValidPlatformImage(image) ==
    LET t == trim(image)
        n == Len(t)
        seg == WordChars \cup {".", "-"}
    IN \E d, e \in 1..n :
          /\ 1 < d /\ d + 1 < e /\ e < n
          /\ t[d] = "." /\ t[e] = "/"
          /\ \A k \in 1..(d - 1) : t[k] \in seg
          /\ \A k \in (d + 1)..(e - 1) : t[k] \in WordChars
          /\ \/ \A k \in (e + 1)..n : t[k] \in seg
             \/ \E f \in (e + 2)..(n - 1) :
                   /\ t[f] = "/"
                   /\ \A k \in ((e + 1)..n) \ {f} : t[k] \in seg

\* PlatformConfig.vue hasInvalidInputs, on the manifest the component is given
hasInvalidInputsOfPlatformConfig(c) ==
    \/ trim(c.ManifestVersion) = empty
    \/ trim(c.ManifestVersion) # empty /\ ~isValidManifestVersion(c.ManifestVersion)
    \/ trim(c.PlatformVersion) = empty
    \/ trim(c.PlatformVersion) # empty /\ ~isValidVersion(c.PlatformVersion)
    \/ trim(c.PlatformImage) = empty
    \/ trim(c.PlatformImage) # empty /\ ~isValidPlatformImage(c.PlatformImage)
    \/ trim(c.PlatformImageTag) = empty
    \/ trim(c.PlatformImageTag) # empty /\ ~isValidVersion(c.PlatformImageTag)

\* App.vue hasInvalidInputs: either component reports one; the components
\* are there once a manifest is loaded
hasInvalidInputs(st) ==
    /\ st.config # Null
    /\ \/ hasInvalidInputsOfModuleList(st.modules)
       \/ hasInvalidInputsOfPlatformConfig(Deref(st.heap, st.config))

\* lines 292-295: the names without a leading v, the versions among them,
\* latest first
processedTags(allTags) ==
    LET names == [i \in 1..Len(allTags) |->
                    IF allTags[i] # <<>> /\ Head(allTags[i]) = "v"
                    THEN Tail(allTags[i]) ELSE allTags[i]]
        valid == SelectSeq(names, isValidVersion)
        asc == sortedValues(valid, valid, Collation)
    IN [i \in 1..Len(asc) |-> asc[Len(asc) + 1 - i]]

\* what the tags request gives: a status that is not ok, or pages of names
TagResponses ==
    { [ok |-> FALSE, tags |-> <<>>],
      [ok |-> TRUE, tags |-> <<>>],
      [ok |-> TRUE, tags |-> << <<"1", ".", "0", ".", "0">>, <<"r", "c">>,
                                <<"v", "2", ".", "0", ".", "0">> >>] }

\* fetchGitHubTags from the response of its request to its end: the tags go
\* to the view-record the call found, on the list or not; the catch and the
\* finally block look the identifier up again
settleFetch(st, n, resp) ==
    LET f == st.fetches[n]
        tags == processedTags(resp.tags)
        j == findViewById(st.modules, f.moduleId)
        cached == [st EXCEPT !.cache = (f.moduleId :> tags) @@ @]
        st1 == IF resp.ok
               THEN IF f.live
                    THEN [cached EXCEPT !.modules[f.module] =
                            setProperty(@, "tags", tags)]
                    ELSE IF f.snap # 0
                    THEN [cached EXCEPT !.bulk.snap[f.snap] =
                            setProperty(@, "tags", tags)]
                    ELSE cached
               ELSE IF j = 0 THEN st
               ELSE [st EXCEPT !.modules[j] =
                       [k \in DOMAIN @ \ {"tags"} |-> @[k]]]
        st2 == IF j = 0 THEN st1
               ELSE [st1 EXCEPT !.modules[j] =
                       setProperty(@, "isLoadingTags", FALSE)]
    IN [st2 EXCEPT !.fetches = SubSeq(@, 1, n - 1) \o SubSeq(@, n + 1, Len(@))]

\* await fetchGitHubTags(module.id, true): the loop stops until the call ends
awaitFetch(st) == [st EXCEPT !.bulk.pc = "fetching"]

\* a mutant: the progress is counted in the try block, after the update
progressedInTry(b, has) == IF has THEN [b EXCEPT !.current = @ + 1] ELSE b

\* lines 362-366: the finally block of the loop body
progressed(b, has) == [b EXCEPT !.current = @ + 1]

\* lines 345-364 of the loop, for the module at bulk.k, and what follows up
\* to the next delay or the end: the watcher of props.config runs
bulkContinue(st) ==
    LET b == st.bulk
        module == IF b.live THEN st.modules[b.idx[b.k]] ELSE b.snap[b.k]
        has == "tags" \in DOMAIN module /\ module.tags # <<>>
        st1 == IF has
               THEN handleInputChange(st, module.id, GithubReleases, module.tags[1])
               ELSE st
        st2 == flushWatcher(st1, st.config)
        b1 == progressed([st2.bulk EXCEPT
                            !.updatedCount = IF has THEN @ + 1 ELSE @], has)
    IN IF b.k < b.total
       THEN [st2 EXCEPT !.bulk = [b1 EXCEPT !.pc = "delay", !.k = @ + 1]]
       ELSE [st2 EXCEPT !.bulk = [pc |-> "idle", current |-> b1.current,
                                  total |-> b1.total],
                        !.fetches = [n \in DOMAIN st2.fetches |->
                                       [st2.fetches[n] EXCEPT !.snap = 0]]]

\* lines 334-343 of the loop, for the module at bulk.k: the delay is over;
\* a call that finds no view-record ends at once
bulkFetch(st) ==
    LET b == st.bulk
        module == IF b.live THEN st.modules[b.idx[b.k]] ELSE b.snap[b.k]
        st1 == fetchGitHubTags([st EXCEPT !.bulk.started = Append(@, module.id)],
                               module.id, "bulk")
    IN IF st1.fetches = st.fetches THEN bulkContinue(st1) ELSE awaitFetch(st1)

\* updateAllGitHubModules up to its first request
updateAllGitHubModules(st) ==
    LET idx == SelectSeq([i \in 1..Len(st.modules) |-> i],
                         LAMBDA i : st.modules[i].sourceType = GithubReleases)
    IN IF idx = <<>> THEN st
       ELSE bulkFetch([st EXCEPT !.bulk =
              [pc |-> "start", list |-> st.modules, idx |-> idx, live |-> TRUE,
               snap |-> <<>>, k |-> 1, current |-> 0, total |-> Len(idx),
               updatedCount |-> 0, started |-> <<>>, results |-> <<>>]])

-----------------------------------------------------------------------------
(* The editor: one action per handler.                                     *)

\* what the user types into a module's input
TypedValues == { empty, <<" ">> \o ver2 }

\* what the user types into a platform field
PlatformValues == { ver2 }

\* no tags cached, no bulk update running
NoTags == <<>>
NoBulk == [pc |-> "idle", current |-> 0, total |-> 0]

Here == [heap |-> heap, config |-> config, modules |-> modules, calls |-> <<>>,
         cache |-> cache, bulk |-> bulk, fetches |-> fetches]

\* a handler or the rest of one has run: its effects on all the state
Applied(result, o, s) == \E st \in {result} :
    /\ heap' = collect(st.heap, {st.config, originalConfig, config})
    /\ config' = st.config
    /\ modules' = st.modules
    /\ calls' = st.calls
    /\ cache' = st.cache
    /\ bulk' = st.bulk
    /\ fetches' = st.fetches
    /\ pre' = [ref |-> config, val |-> Deref(heap, config), modules |-> modules]
    /\ op' = o
    /\ steps' = s

\* the handler has returned: its effects, and the record of what it found
Done(result, o) == Applied(result, o, steps + 1)

Init ==
    /\ heap = EmptyHeap
    /\ config = Null
    /\ originalConfig = Null
    /\ jsonError = FALSE
    /\ modules = <<>>
    /\ prInFlight = 0
    /\ steps = 0
    /\ loaded = NoManifest
    /\ op = [name |-> "setup"]
    /\ pre = [ref |-> Null, val |-> NoManifest, modules |-> <<>>]
    /\ calls = <<>>
    /\ shouldSortModules = TRUE
    /\ cache = NoTags
    /\ bulk = NoBulk
    /\ fetches = <<>>

\* handleJsonSubmit with a text JSON.parse rejects
HandleJsonSubmitInvalid ==
    /\ config = Null
    /\ jsonError' = TRUE
    /\ op' = [name |-> "handleJsonSubmit", ok |-> FALSE]
    /\ UNCHANGED <<heap, config, originalConfig, modules, prInFlight, steps,
                   loaded, pre, calls, shouldSortModules, cache, bulk,
                   fetches>>

\* a mutant: originalConfig.value is given the object config.value holds
HandleJsonSubmitShared ==
    /\ config = Null
    /\ \E doc \in ManifestPool :
         LET p1 == JSONparse(heap, doc)
         IN /\ heap' = p1.heap
            /\ config' = p1.ref
            /\ originalConfig' = p1.ref
            /\ modules' = loadCachedTags(updateModules(Deref(p1.heap, p1.ref)),
                                       cache)
            /\ loaded' = doc
    /\ jsonError' = FALSE
    /\ op' = [name |-> "handleJsonSubmit", ok |-> TRUE]
    /\ shouldSortModules' = TRUE
    /\ UNCHANGED <<prInFlight, steps, pre, calls, cache, bulk,
                   fetches>>

\* handleJsonSubmit with a text JSON.parse accepts and the 'Sort modules' box
\* as it is shown, checked; ModuleList is mounted and its immediate watcher
\* builds the view-records
HandleJsonSubmit ==
    /\ config = Null
    /\ \E doc \in ManifestPool :
         LET p1 == JSONparse(heap, doc)
             p2 == JSONparse(p1.heap, doc)
         IN /\ heap' = p2.heap
            /\ config' = p1.ref
            /\ originalConfig' = p2.ref
            /\ modules' = loadCachedTags(updateModules(Deref(p2.heap, p1.ref)),
                                       cache)
            /\ loaded' = doc
    /\ jsonError' = FALSE
    /\ op' = [name |-> "handleJsonSubmit", ok |-> TRUE]
    /\ shouldSortModules' = TRUE
    /\ UNCHANGED <<prInFlight, steps, pre, calls, cache, bulk,
                   fetches>>

\* handleJsonSubmit with a text JSON.parse accepts and the 'Sort modules' box
\* either way
HandleJsonSubmitAny ==
    /\ config = Null
    /\ \E doc \in SerializerPool, sort \in BOOLEAN :
         LET p1 == JSONparse(heap, doc)
             p2 == JSONparse(p1.heap, doc)
         IN /\ heap' = p2.heap
            /\ config' = p1.ref
            /\ originalConfig' = p2.ref
            /\ modules' = loadCachedTags(updateModules(Deref(p2.heap, p1.ref)),
                                       cache)
            /\ loaded' = doc
            /\ shouldSortModules' = sort
    /\ jsonError' = FALSE
    /\ op' = [name |-> "handleJsonSubmit", ok |-> TRUE]
    /\ UNCHANGED <<prInFlight, steps, pre, calls, cache, bulk,
                   fetches>>

\* the template renders {{ generateJson() }}
GenerateJson ==
    /\ config # Null /\ op.name # "generateJson"
    /\ LET g == generateJson(heap, config, shouldSortModules)
       IN /\ heap' = collect(g.heap, {config, originalConfig})
          /\ op' = [name |-> "generateJson", sort |-> shouldSortModules,
                    text |-> g.text]
    /\ UNCHANGED <<config, originalConfig, modules, jsonError, prInFlight, steps,
                   loaded, pre, calls, shouldSortModules, cache, bulk,
                   fetches>>

\* the template of ModuleList renders the list sortedModules gives
SortedModules ==
    /\ config # Null /\ op.name # "sortedModules"
    /\ LET r == sortedModules(modules, shouldSortModules)
       IN /\ modules' = r.modules
          /\ op' = [name |-> "sortedModules", result |-> r.result]
    /\ UNCHANGED <<heap, config, originalConfig, jsonError, prInFlight, steps,
                   loaded, pre, calls, shouldSortModules, cache, bulk,
                   fetches>>

\* localStorage holds the tags an earlier visit of the page cached
CachedBefore ==
    /\ config = Null /\ cache = NoTags
    /\ \E id \in {idA, idAB} : cache' = (id :> <<ver1>>)
    /\ UNCHANGED <<heap, config, originalConfig, jsonError, modules, prInFlight,
                   steps, loaded, op, pre, calls, shouldSortModules, bulk,
                   fetches>>

\* the reload button of a listed GithubReleases module is clicked
RefreshTags ==
    /\ config # Null /\ steps < MaxSteps
    /\ \E i \in DOMAIN modules :
         /\ modules[i].sourceType = GithubReleases
         /\ ~("isLoadingTags" \in DOMAIN modules[i] /\ modules[i].isLoadingTags)
         /\ Done(fetchGitHubTags(Here, modules[i].id, "button"),
                 [name |-> "fetchGitHubTags", moduleId |-> modules[i].id])
    /\ UNCHANGED <<originalConfig, jsonError, prInFlight, loaded,
                   shouldSortModules>>

\* the 'Update All To Latest Versions' button is clicked
UpdateAllGitHubModules ==
    /\ config # Null /\ bulk.pc = "idle" /\ steps < MaxSteps
    /\ Applied(updateAllGitHubModules(Here),
               [name |-> "updateAllGitHubModules",
                found |-> \E i \in DOMAIN modules :
                             modules[i].sourceType = GithubReleases],
               steps + 1)
    /\ UNCHANGED <<originalConfig, jsonError, prInFlight, loaded,
                   shouldSortModules>>

\* the 500 ms between two modules of the loop are over
BulkDelayDone ==
    /\ bulk.pc = "delay"
    /\ Applied(bulkFetch(Here), [name |-> "bulkFetch", k |-> bulk.k], steps)
    /\ UNCHANGED <<originalConfig, jsonError, prInFlight, loaded,
                   shouldSortModules>>

\* the request of a fetchGitHubTags call is answered; the loop of
\* updateAllGitHubModules that waits for the call goes on.  bulk.results
\* keeps what the calls of the loop were answered with
FetchSettled ==
    /\ \E n \in DOMAIN fetches, resp \in TagResponses :
         \E st1 \in {settleFetch(Here, n, resp)},
            waited \in {fetches[n].by = "bulk" /\ bulk.pc = "fetching"},
            result \in {[moduleId |-> fetches[n].moduleId, ok |-> resp.ok,
                         tags |-> processedTags(resp.tags)]} :
            Applied(IF waited
                    THEN bulkContinue([st1 EXCEPT !.bulk.results = Append(@, result)])
                    ELSE st1,
               [name |-> "fetchSettled", moduleId |-> fetches[n].moduleId,
                by |-> fetches[n].by, ok |-> resp.ok, tags |-> result.tags,
                before |-> bulk],
               steps)
    /\ UNCHANGED <<originalConfig, jsonError, prInFlight, loaded,
                   shouldSortModules>>

\* the input or select of a listed module fires with a value
HandleInputChange ==
    /\ config # Null /\ steps < MaxSteps
    /\ \E i \in DOMAIN modules :
         \E v \in TypedValues \cup {modules[i].value} :
            Done(flushWatcher(handleInputChange(Here, modules[i].id,
                                                modules[i].sourceType, v), config),
                 [name |-> "handleInputChange", index |-> i,
                  moduleId |-> modules[i].id,
                  type |-> modules[i].sourceType, value |-> v])
    /\ UNCHANGED <<originalConfig, jsonError, prInFlight, loaded,
                   shouldSortModules>>

\* the source select of a listed module changes to the other kind
MoveModule ==
    /\ config # Null /\ steps < MaxSteps
    /\ \E i \in DOMAIN modules :
         \E to \in ModuleType \ {modules[i].sourceType} :
            Done(flushWatcher(moveModule(Here, modules[i].id,
                                         modules[i].sourceType, to), config),
                 [name |-> "moveModule", moduleId |-> modules[i].id,
                  from |-> modules[i].sourceType, to |-> to])
    /\ UNCHANGED <<originalConfig, jsonError, prInFlight, loaded,
                   shouldSortModules>>

\* a platform input fires with a value
UpdateField ==
    /\ config # Null /\ steps < MaxSteps
    /\ \E f \in PlatformFields :
         \E v \in PlatformValues :
            Done(flushWatcher(updateField(Here, f, v), config),
                 [name |-> "updateField", field |-> f, value |-> v])
    /\ UNCHANGED <<originalConfig, jsonError, prInFlight, loaded,
                   shouldSortModules>>

\* the Module Sources textarea fires
UpdateModuleSources ==
    /\ config # Null /\ steps < MaxSteps
    /\ Done(flushWatcher(updateModuleSources(Here, << <<"n">> >>), config),
            [name |-> "updateField", field |-> "ModuleSources",
             value |-> << <<"n">> >>])
    /\ UNCHANGED <<originalConfig, jsonError, prInFlight, loaded,
                   shouldSortModules>>

\* handlePrUrlSubmit with a text that is no pull-request URL
PrUrlInvalid ==
    /\ config # Null /\ steps < MaxSteps
    /\ Done(Here, [name |-> "handlePrUrlSubmit", outcome |-> "Invalid PR URL"])
    /\ UNCHANGED <<originalConfig, jsonError, prInFlight, loaded,
                   shouldSortModules>>

\* handlePrUrlSubmit with a pull-request URL, up to its await fetch
PrUrlSubmit ==
    /\ config # Null /\ steps < MaxSteps
    /\ prInFlight < MaxInFlight
    /\ prInFlight' = prInFlight + 1
    /\ Done(Here, [name |-> "handlePrUrlSubmit", outcome |-> "fetching"])
    /\ UNCHANGED <<originalConfig, jsonError, loaded, shouldSortModules>>

\* handlePrUrlSubmit from the settled fetch to its end
PrResponse ==
    /\ config # Null /\ steps < MaxSteps
    /\ prInFlight > 0
    /\ prInFlight' = prInFlight - 1
    /\ \E resp \in PrResponses :
         Done(IF resp.ok /\ resp.artifact # empty
              THEN importArtifact(Here, resp.artifact)
              ELSE Here,
              [name |-> "handlePrUrlSubmit", outcome |-> prOutcome(Here, resp),
               artifact |-> resp.artifact])
    /\ UNCHANGED <<originalConfig, jsonError, loaded, shouldSortModules>>

\* the 'module-update' handler applied once to a loaded manifest, with any
\* arguments
UpdateIds == { idA, idAB, <<"b">> }
UpdateValues == { empty, DELETE, ver2, idA \o <<"_">> \o zip2 }

ModuleUpdate ==
    /\ config # Null /\ steps = 0
    /\ \E id \in UpdateIds :
         \E type \in ModuleType :
            \E v \in UpdateValues :
               Done(flushWatcher(handleModuleUpdate(Here, id, type, v), config),
                    [name |-> "handleModuleUpdate", moduleId |-> id,
                     type |-> type, value |-> v])
    /\ UNCHANGED <<originalConfig, jsonError, prInFlight, loaded,
                   shouldSortModules>>

Next ==
    \/ HandleJsonSubmitInvalid
    \/ HandleJsonSubmit
    \/ HandleInputChange
    \/ MoveModule
    \/ UpdateField
    \/ UpdateModuleSources
    \/ PrUrlInvalid
    \/ PrUrlSubmit
    \/ PrResponse

Spec == Init /\ [][Next]_vars

\* the diff preview is rendered: generateDiffDescription() after a handler
GenerateDiff ==
    /\ config # Null /\ op.name # "generateDiffDescription"
    /\ op' = [name |-> "generateDiffDescription", after |-> op,
              changes |-> generateDiffDescription(Deref(heap, config),
                                                  Deref(heap, originalConfig))]
    /\ UNCHANGED <<heap, config, originalConfig, jsonError, modules, prInFlight,
                   steps, loaded, pre, calls, shouldSortModules, cache, bulk,
                   fetches>>

NextDiff ==
    \/ HandleJsonSubmit
    \/ MoveModule
    \/ UpdateField
    \/ UpdateModuleSources
    \/ GenerateDiff

\* loads, moves and platform edits, with the diff preview
SpecDiff == Init /\ [][NextDiff]_vars

\* the serializer and the sorted list, on every manifest loaded
NextJson == HandleJsonSubmitAny \/ GenerateJson \/ SortedModules

SpecJson == Init /\ [][NextJson]_vars

\* the bulk update of a loaded manifest, the list left alone while it runs
NextBulk ==
    \/ CachedBefore
    \/ HandleJsonSubmit
    \/ UpdateAllGitHubModules
    \/ BulkDelayDone
    \/ FetchSettled

SpecBulk == Init /\ [][NextBulk]_vars

\* the editor with its requests: edits and moves while calls are in flight
\* and updateAllGitHubModules runs
NextAsync ==
    \/ CachedBefore
    \/ HandleJsonSubmit
    \/ HandleInputChange
    \/ MoveModule
    \/ UpdateField
    \/ RefreshTags
    \/ UpdateAllGitHubModules
    \/ BulkDelayDone
    \/ FetchSettled

SpecAsync == Init /\ [][NextAsync]_vars

\* every timer fires and every request is answered: FetchSettled is enabled
\* exactly while fetches holds a call, and each of its steps takes one out
FairBulk == SpecBulk /\ WF_vars(BulkDelayDone) /\ []<>(fetches = <<>>)

NextUpdate == HandleJsonSubmit \/ ModuleUpdate

\* handleModuleUpdate as a function of the manifest and its arguments
SpecUpdate == Init /\ [][NextUpdate]_vars

-----------------------------------------------------------------------------
(* What the claims speak of.                                               *)

Cfg == Deref(heap, config)

\* the manifest has a source declaration of the kind
declares(srcs, type) == \E i \in 1..Len(srcs) : srcs[i].Name = type

\* the module records of the source of a kind
recordsOf(srcs, type) ==
    IF declares(srcs, type) THEN srcs[findSourceIndex(srcs, type)].Modules
    ELSE <<>>

\* the positions of the records of an identifier
positionsOf(ms, type, id) == { i \in 1..Len(ms) : moduleIdOf(type, ms[i]) = id }

firstOf(S) == CHOOSE i \in S : \A j \in S : i <= j

\* the records of the other identifiers, in order
RECURSIVE othersOf(_, _, _)
othersOf(ms, type, id) ==
    IF ms = <<>> THEN <<>>
    ELSE (IF moduleIdOf(type, Head(ms)) = id THEN <<>> ELSE <<Head(ms)>>)
         \o othersOf(Tail(ms), type, id)

\* the empty record of a kind for an identifier
emptyRecord(type, id) ==
    IF type = GithubReleases THEN [Id |-> id, Version |-> empty]
    ELSE [BlobName |-> id \o <<"_">>]

\* the record a call is to write for a value
recordFor(type, id, value) ==
    IF type = GithubReleases THEN [Id |-> id, Version |-> value]
    ELSE [BlobName |-> IF value = empty THEN id \o <<"_">> ELSE value]

\* the identifier holds no '_'
plain(id) == indexOf(id, "_") = 0

\* no two records of the list have the same identifier
distinctIds(ms, type) ==
    \A i, j \in 1..Len(ms) :
        i # j => moduleIdOf(type, ms[i]) # moduleIdOf(type, ms[j])

\* the calls of the last handler that found the source of their kind
appliedCalls == { k \in DOMAIN calls : declares(calls[k].before, calls[k].type) }

\* the call is for an identifier without '_', on a source whose records have
\* identifiers of their own
regular(c) ==
    /\ plain(c.moduleId)
    /\ distinctIds(recordsOf(c.before, c.type), c.type)

\* the messages handlePrUrlSubmit alerts, without the identifier
PrFailures ==
    { "Invalid PR URL", "Failed to fetch", "Failed to fetch PR description",
      "No artifact URL found in PR description", "not found in the configuration",
      "not found after move" }

-----------------------------------------------------------------------------
(* The claims.                                                             *)

\* C1: re-submitting a view-record's own current value through
\* handleInputChange leaves the manifest deep-equal to what it was.
C1_RoundTrip ==
    (op.name = "handleInputChange" /\ op.value = pre.modules[op.index].value)
    => Cfg = pre.val

\* C2: after moveModule(id, from, to) on a manifest with both declarations that
\* holds id under from (an identifier without '_', no identifier twice in a
\* source), the from source holds no record of id and the to source holds
\* exactly one, the empty record of the destination kind.
C2_MovePostcondition ==
    (/\ op.name = "moveModule" /\ plain(op.moduleId)
     /\ declares(pre.val.Sources, op.from) /\ declares(pre.val.Sources, op.to)
     /\ distinctIds(recordsOf(pre.val.Sources, op.from), op.from)
     /\ distinctIds(recordsOf(pre.val.Sources, op.to), op.to)
     /\ positionsOf(recordsOf(pre.val.Sources, op.from), op.from, op.moduleId) # {})
    => LET to == recordsOf(Cfg.Sources, op.to)
           mine == { i \in 1..Len(to) :
                        \/ moduleIdOf(op.to, to[i]) = op.moduleId
                        \/ to[i] = emptyRecord(op.to, op.moduleId) }
       IN /\ positionsOf(recordsOf(Cfg.Sources, op.from), op.from, op.moduleId) = {}
          /\ Cardinality(mine) = 1
          /\ \A i \in mine : to[i] = emptyRecord(op.to, op.moduleId)

\* C3, as claimed: after a move whose insert was applied, updateModules
\* derives the moved identifier from the destination record, for every
\* identifier.
C3_IdentifierStable ==
    (op.name = "moveModule" /\ calls[2].replaced)
    => \E i \in DOMAIN modules :
          modules[i].id = op.moduleId /\ modules[i].sourceType = op.to

\* C3, amended: after a move whose insert was applied, updateModules derives
\* the moved identifier from the destination record, for every identifier
\* that holds no '_'.
C3_IdentifierStableWithoutUnderscore ==
    (/\ op.name = "moveModule" /\ calls[2].replaced
     /\ indexOf(op.moduleId, "_") = 0)
    => \E i \in DOMAIN modules :
          modules[i].id = op.moduleId /\ modules[i].sourceType = op.to

C3_Witness ==
    /\ op.name = "moveModule" /\ calls[2].replaced
    /\ op.moduleId = idAB /\ op.to = AzureBlob
    /\ \E i \in DOMAIN modules :
          modules[i].id = idAB /\ modules[i].sourceType = AzureBlob

\* C4: a call of handleModuleUpdate, for an identifier without '_' on a source
\* that has no identifier twice, leaves every record of another identifier in
\* its source as it was.
C4_OtherRecordsUntouched ==
    \A k \in { c \in appliedCalls : regular(calls[c]) } :
        othersOf(recordsOf(calls[k].after, calls[k].type), calls[k].type,
                 calls[k].moduleId)
        = othersOf(recordsOf(calls[k].before, calls[k].type), calls[k].type,
                   calls[k].moduleId)

\* C5: a call with the delete sentinel, for an identifier without '_' on a
\* source that has no identifier twice, removes the record of the identifier
\* and no other, and leaves the list as it was when there is none.
C5_DeleteExactlyTheRecord ==
    \A k \in { c \in appliedCalls : regular(calls[c]) } :
        calls[k].value = DELETE =>
            LET b == recordsOf(calls[k].before, calls[k].type)
                a == recordsOf(calls[k].after, calls[k].type)
                P == positionsOf(b, calls[k].type, calls[k].moduleId)
            IN IF P = {} THEN a = b
               ELSE a = SubSeq(b, 1, firstOf(P) - 1)
                        \o SubSeq(b, firstOf(P) + 1, Len(b))

\* C6: a call with another value, for an identifier without '_' on a source
\* that has no identifier twice, appends one record of the kind when the
\* source holds none of the identifier, and otherwise overwrites the value of
\* its record in place.
C6_InsertOrUpdate ==
    \A k \in { c \in appliedCalls : regular(calls[c]) } :
        calls[k].value # DELETE =>
            LET b == recordsOf(calls[k].before, calls[k].type)
                a == recordsOf(calls[k].after, calls[k].type)
                P == positionsOf(b, calls[k].type, calls[k].moduleId)
                new == recordFor(calls[k].type, calls[k].moduleId, calls[k].value)
            IN IF P = {} THEN a = Append(b, new)
               ELSE /\ Len(a) = Len(b)
                    /\ \A i \in 1..Len(b) :
                          a[i] = IF i = firstOf(P)
                                 THEN [f \in DOMAIN b[i] \cup DOMAIN new |->
                                         IF f \in {"Version", "BlobName"}
                                         THEN new[f] ELSE b[i][f]]
                                 ELSE b[i]

\* C7: a call for a kind the manifest does not declare changes nothing and
\* does not replace config.value, whatever the value.
C7_UndeclaredKindIsNoOp ==
    /\ \A k \in DOMAIN calls :
          ~declares(calls[k].before, calls[k].type)
          => ~calls[k].replaced /\ calls[k].same
    /\ (op.name = "handleModuleUpdate" /\ ~declares(pre.val.Sources, op.type))
       => config = pre.ref /\ Cfg = pre.val /\ modules = pre.modules

C7_Witness ==
    /\ op.name = "handleModuleUpdate" /\ op.value = DELETE
    /\ ~declares(pre.val.Sources, op.type)
    /\ pre.modules # <<>>
    /\ config = pre.ref

\* C8: every edit, move and platform edit stores a new object and leaves the
\* object stored before as it was; originalConfig shares nothing with
\* config.value and stays deep-equal to the manifest as loaded.
C8_CopyThenReplace ==
    /\ pre.ref # Null => Deref(heap, pre.ref) = pre.val
    /\ op.name \in {"handleInputChange", "moveModule", "updateField"}
       => config # pre.ref
    /\ originalConfig # Null =>
          /\ Deref(heap, originalConfig) = loaded
          /\ originalConfig # config
          /\ heap.objs[originalConfig].Sources # heap.objs[config].Sources
          /\ heap.objs[originalConfig].ModuleSources
             # heap.objs[config].ModuleSources

C8_Witness ==
    /\ op.name = "updateField"
    /\ pre.val # loaded
    /\ pre.val.Sources # loaded.Sources
    /\ Cfg # pre.val
    /\ Deref(heap, originalConfig) = loaded

C10_FailedImportChangesNothing ==
    (/\ op.name = "handlePrUrlSubmit"
     /\ op.outcome \in PrFailures
     /\ op.outcome \in {"Invalid PR URL", "Failed to fetch PR description",
                        "No artifact URL found in PR description",
                        "not found in the configuration"})
    => /\ config = pre.ref
       /\ Cfg = pre.val
       /\ modules = pre.modules
       /\ calls = <<>>

C10_Witness ==
    /\ op.name = "handlePrUrlSubmit"
    /\ op.outcome = "not found in the configuration"
    /\ pre.modules # <<>>
    /\ Cfg = pre.val

\* C11: a pull-request import of the artifact id_suffix for a module listed
\* under GithubReleases (both sources declared, an identifier without '_', no
\* identifier twice in a source) makes the delete, the insert and the value
\* update in that order, and ends with no record of id under GithubReleases
\* and a record with BlobName id_suffix under AzureBlob.
C11_ImportMovesThenUpdates ==
    (/\ op.name = "handlePrUrlSubmit" /\ op.outcome = "found"
     /\ pre.modules[findViewById(pre.modules, split(op.artifact)[1])].sourceType
        = GithubReleases
     /\ declares(pre.val.Sources, GithubReleases)
     /\ declares(pre.val.Sources, AzureBlob)
     /\ distinctIds(recordsOf(pre.val.Sources, GithubReleases), GithubReleases)
     /\ distinctIds(recordsOf(pre.val.Sources, AzureBlob), AzureBlob))
    => LET id == split(op.artifact)[1]
           az == recordsOf(Cfg.Sources, AzureBlob)
       IN /\ Len(calls) = 3
          /\ calls[1].type = GithubReleases /\ calls[1].value = DELETE
          /\ calls[2].type = AzureBlob /\ calls[2].value = empty
          /\ calls[3].type = AzureBlob /\ calls[3].value = op.artifact
          /\ \A k \in 1..3 : calls[k].moduleId = id /\ calls[k].replaced
          /\ positionsOf(recordsOf(Cfg.Sources, GithubReleases),
                         GithubReleases, id) = {}
          /\ \E i \in 1..Len(az) : az[i] = [BlobName |-> op.artifact]

\* C12: a handleJsonSubmit step with a text that is no JSON sets the error
\* and leaves config, originalConfig and the objects as they were; with a
\* manifest it stores two objects that are deep-equal to the document, share
\* no array, and clears the error.
C12_ParseFailureChangesNothing ==
    [][ op'.name = "handleJsonSubmit"
        => IF op'.ok
           THEN /\ ~jsonError'
                /\ config' # Null /\ originalConfig' # Null
                /\ config' # originalConfig'
                /\ Deref(heap', config') = loaded'
                /\ Deref(heap', originalConfig') = loaded'
                /\ heap'.objs[config'].Sources
                   # heap'.objs[originalConfig'].Sources
                /\ heap'.objs[config'].ModuleSources
                   # heap'.objs[originalConfig'].ModuleSources
           ELSE /\ jsonError'
                /\ config' = config /\ originalConfig' = originalConfig
                /\ heap' = heap /\ modules' = modules
      ]_vars

C12_Witness ==
    /\ op.name = "handleJsonSubmit" /\ ~op.ok
    /\ jsonError
    /\ config = Null /\ originalConfig = Null

\* the manifest originalConfig.value holds
Orig == Deref(heap, originalConfig)

ModuleKinds == {"added", "moved", "changed", "removed"}

\* C13: the diff has, for each of the five platform fields, one entry with the
\* original and the current value when they differ and none when they are
\* equal, in the order of the fields and before every module entry.
C13_DiffScalarFields ==
    op.name = "generateDiffDescription" =>
        LET ch == op.changes
            ScalarFields ==
                << [f |-> "ManifestVersion", label |-> "Manifest Version"],
                   [f |-> "PlatformVersion", label |-> "Platform Version"],
                   [f |-> "PlatformImage", label |-> "Platform Image"],
                   [f |-> "PlatformImageTag", label |-> "Platform Image Tag"],
                   [f |-> "PlatformAssetUrl", label |-> "Platform Asset URL"] >>
            at(k) == { i \in 1..Len(ch) :
                         ch[i].kind = "field" /\ ch[i].label = ScalarFields[k].label }
        IN /\ \A k \in 1..Len(ScalarFields) :
                 LET f == ScalarFields[k].f
                 IN IF Cfg[f] = Orig[f] THEN at(k) = {}
                    ELSE /\ Cardinality(at(k)) = 1
                         /\ \A i \in at(k) :
                               ch[i].old = Orig[f] /\ ch[i].new = Cfg[f]
           /\ \A k1, k2 \in 1..Len(ScalarFields) :
                 k1 < k2 => \A i \in at(k1) : \A j \in at(k2) : i < j
           /\ \A k \in 1..Len(ScalarFields) :
                 \A i \in at(k) : \A j \in 1..Len(ch) :
                    ch[j].kind \in ModuleKinds => i < j

C13_Witness ==
    /\ op.name = "generateDiffDescription"
    /\ Cfg.PlatformVersion # Orig.PlatformVersion
    /\ Cfg.ManifestVersion = Orig.ManifestVersion
    /\ \E i, j \in 1..Len(op.changes) :
          /\ op.changes[i].kind = "field"
          /\ op.changes[i].label = "Platform Version"
          /\ op.changes[i].old = ver1 /\ op.changes[i].new = ver2
          /\ op.changes[j].kind \in ModuleKinds

\* C14: a record of the current manifest has an "added to <kind>" entry if
\* and only if no record of the original manifest, under either kind, has its
\* identifier.
C14_DiffAddedIffNew ==
    op.name = "generateDiffDescription" =>
        LET cur == flatRecords(Cfg.Sources)
            old == flatRecords(Orig.Sources)
        IN \A i \in 1..Len(cur) :
              LET id == moduleIdOf(cur[i].Name, cur[i].module)
              IN id # empty =>
                 ((\E e \in 1..Len(op.changes) :
                      op.changes[e] = [kind |-> "added", id |-> id,
                                       to |-> cur[i].Name])
                  <=> ~\E j \in 1..Len(old) :
                         moduleIdOf(old[j].Name, old[j].module) = id)

\* C15: after a load and one moveModule(id, k1, k2) (both sources declared,
\* an identifier without '_', held once under k1 and not under k2), the diff
\* has one entry for id: "moved from k1 to k2" with the original display
\* value under k1 and the empty display value under k2 (an empty value may
\* be shown as "(none)").
C15_DiffMoved ==
    (/\ op.name = "generateDiffDescription"
     /\ op.after.name = "moveModule" /\ steps = 1
     /\ plain(op.after.moduleId)
     /\ declares(loaded.Sources, op.after.from)
     /\ declares(loaded.Sources, op.after.to)
     /\ Cardinality(positionsOf(recordsOf(loaded.Sources, op.after.from),
                                op.after.from, op.after.moduleId)) = 1
     /\ positionsOf(recordsOf(loaded.Sources, op.after.to),
                    op.after.to, op.after.moduleId) = {})
    => LET id == op.after.moduleId
           k1 == op.after.from
           ms == recordsOf(loaded.Sources, k1)
           was == ms[firstOf(positionsOf(ms, k1, id))]
           mine == { e \in 1..Len(op.changes) :
                       op.changes[e].kind \in ModuleKinds /\ op.changes[e].id = id }
           shown(v) == IF v = empty THEN {empty, None} ELSE {v}
       IN /\ Cardinality(mine) = 1
          /\ \A e \in mine :
                /\ op.changes[e].kind = "moved"
                /\ op.changes[e].from = k1 /\ op.changes[e].to = op.after.to
                /\ op.changes[e].old \in shown(valueOf(k1, was))
                /\ op.changes[e].new \in shown(empty)

\* the sorted text generateJson writes for a manifest, as a value
sortedText(val) ==
    LET p == JSONparse(EmptyHeap, val)
    IN generateJson(p.heap, p.ref, TRUE).text

\* C16: with sorting enabled, serializing a manifest, parsing the text and
\* serializing again gives the same text.
C16_SerializerIdempotent ==
    (op.name = "generateJson" /\ op.sort)
        => sortedText(parseText(op.text)) = op.text

\* a text was written whose sources and modules had to be reordered
C16_Witness ==
    /\ op.name = "generateJson" /\ op.sort
    /\ op.text # stringify(loaded)
    /\ \E i \in DOMAIN loaded.Sources :
         \E j, k \in DOMAIN loaded.Sources[i].Modules :
            /\ j < k
            /\ getModuleId(loaded.Sources[i].Modules[j])
                 = getModuleId(loaded.Sources[i].Modules[k])
            /\ loaded.Sources[i].Modules[j] # loaded.Sources[i].Modules[k]
    /\ sortedText(parseText(op.text)) = op.text

\* C17: with sorting enabled the text lists the sources in ascending order of
\* their kind name and, in each source, the modules in ascending order of
\* their identifier, for AzureBlob the part of BlobName before the first '_';
\* the modules of each source are a permutation of the stored ones.
C17_SortedSerialization ==
    (op.name = "generateJson" /\ op.sort) =>
        LET out == parseText(op.text).Sources
            ident(x, m) == IF x.Name = AzureBlob
                           THEN SubSeq(m.BlobName, 1,
                                       IF indexOf(m.BlobName, "_") = 0
                                       THEN Len(m.BlobName)
                                       ELSE indexOf(m.BlobName, "_") - 1)
                           ELSE orElse(get(m, "Id"), empty)
            count(ms, m) == Cardinality({ i \in DOMAIN ms : ms[i] = m })
            stored(x) == { y \in { Cfg.Sources[i] : i \in DOMAIN Cfg.Sources } :
                             y.Name = x.Name }
        IN /\ Len(out) = Len(Cfg.Sources)
           /\ \A i \in 1..(Len(out) - 1) :
                out[i].Name = AzureBlob \/ out[i + 1].Name = GithubReleases
           /\ \A i \in DOMAIN out :
                /\ \A j \in 1..(Len(out[i].Modules) - 1) :
                     ~lessBy(ident(out[i], out[i].Modules[j + 1]),
                             ident(out[i], out[i].Modules[j]), Collation)
                /\ \E y \in stored(out[i]) :
                     /\ Len(y.Modules) = Len(out[i].Modules)
                     /\ \A j \in DOMAIN y.Modules :
                          count(y.Modules, y.Modules[j])
                            = count(out[i].Modules, y.Modules[j])

\* a text was written for a manifest whose sources and modules were both out
\* of order
C17_Witness ==
    /\ op.name = "generateJson" /\ op.sort
    /\ Len(Cfg.Sources) = 2 /\ Cfg.Sources[1].Name = GithubReleases
    /\ \E i \in DOMAIN Cfg.Sources :
         /\ Len(Cfg.Sources[i].Modules) = 2
         /\ lessBy(getModuleId(Cfg.Sources[i].Modules[2]),
                   getModuleId(Cfg.Sources[i].Modules[1]), Collation)
    /\ parseText(op.text).Sources[1].Name = AzureBlob

\* C18: the view-records are one per module record with a derivable
\* identifier, in manifest order, each with the kind of its source, the
\* records without one skipped; sortedModules and generateJson change neither
\* the order of the view-records nor the stored manifest.
C18_ProjectionInManifestOrder ==
    config # Null =>
        LET recs == flatRecords(Cfg.Sources)
            ident(r) ==
                IF r.Name = GithubReleases THEN orElse(get(r.module, "Id"), empty)
                ELSE IF "BlobName" \notin DOMAIN r.module THEN empty
                ELSE SubSeq(r.module.BlobName, 1,
                            IF indexOf(r.module.BlobName, "_") = 0
                            THEN Len(r.module.BlobName)
                            ELSE indexOf(r.module.BlobName, "_") - 1)
            der == { i \in DOMAIN recs : ident(recs[i]) # empty }
            nth(k) == CHOOSE i \in der : Cardinality({ j \in der : j < i }) = k - 1
        IN /\ Cfg = loaded
           /\ Len(modules) = Cardinality(der)
           /\ \A k \in DOMAIN modules :
                /\ modules[k].id = ident(recs[nth(k)])
                /\ modules[k].sourceType = recs[nth(k)].Name

\* the sorted list was computed, in another order than the view-records
\* have, for a manifest that holds a record without an identifier
C18_Witness ==
    /\ op.name = "sortedModules" /\ shouldSortModules
    /\ op.result # modules
    /\ 0 < Len(modules) /\ Len(modules) < Len(flatRecords(Cfg.Sources))
    /\ Cfg = loaded

\* C19: the display value of an AzureBlob record whose BlobName is id_s, id
\* without '_', is s, the whole of BlobName after the first '_'.
C19_AzureDisplayValue ==
    (op.name = "handleJsonSubmit" /\ op.ok) =>
        LET recs == flatRecords(Cfg.Sources)
        IN Len(modules) = Len(recs) =>
              \A k \in DOMAIN recs :
                 (/\ recs[k].Name = AzureBlob
                  /\ indexOf(recs[k].module.BlobName, "_") > 1)
                 => modules[k].value
                      = SubSeq(recs[k].module.BlobName,
                               indexOf(recs[k].module.BlobName, "_") + 1,
                               Len(recs[k].module.BlobName))

\* C20: updateAllGitHubModules calls fetchGitHubTags for the GithubReleases
\* modules of the list one at a time, in the order of the list, and not
\* before the call for the module before has ended and the module has been
\* dealt with; a call that fails leaves its module, the one view-record of
\* its identifier, without tags, and the loop goes on to the
\* next module, or ends when there is none.
C20_BulkRefreshInOrder ==
    LET ids(list) ==
            LET g == SelectSeq(list, LAMBDA m : m.sourceType = GithubReleases)
            IN [i \in 1..Len(g) |-> g[i].id]
        mine == { n \in DOMAIN fetches : fetches[n].by = "bulk" }
    IN /\ bulk.pc # "idle" =>
             /\ Cardinality(mine) <= 1
             /\ Len(bulk.started) <= Len(ids(bulk.list))
             /\ \A i \in DOMAIN bulk.started : bulk.started[i] = ids(bulk.list)[i]
             /\ Len(bulk.started) = bulk.current + Cardinality(mine)
       /\ (op.name = "fetchSettled" /\ op.by = "bulk" /\ ~op.ok) =>
             /\ \A i \in DOMAIN modules :
                   (/\ modules[i].id = op.moduleId
                    /\ modules[i].sourceType = GithubReleases
                    /\ \A j \in DOMAIN modules \ {i} :
                          modules[j].id # op.moduleId)
                   => "tags" \notin DOMAIN modules[i]
             /\ bulk.current = op.before.current + 1
             /\ IF op.before.k < op.before.total
                THEN bulk.pc = "delay" /\ bulk.k = op.before.k + 1
                ELSE /\ bulk.pc = "idle"
                     /\ op.before.started = ids(op.before.list)

\* C21: while updateAllGitHubModules runs, updateProgress.current is between
\* 0 and updateProgress.total, the number of GithubReleases view-records at
\* its start; current grows by one with every module dealt with, its call
\* failed or not; when every request is answered the run ends with current
\* equal to total and isUpdatingAllModules false.
C21_BulkProgressAndTermination ==
    /\ [](bulk.pc # "idle" =>
            /\ 0 <= bulk.current /\ bulk.current <= bulk.total
            /\ bulk.total = Cardinality({ i \in DOMAIN bulk.list :
                               bulk.list[i].sourceType = GithubReleases }))
    /\ []((op.name = "fetchSettled" /\ op.by = "bulk")
            => bulk.current = op.before.current + 1)
    /\ [][bulk'.current = bulk.current
          \/ (bulk.pc = "idle" /\ bulk'.current = 0)
          \/ (bulk.pc = "fetching" /\ bulk'.current = bulk.current + 1)]_vars
    /\ (bulk.pc # "idle") ~> (bulk.pc = "idle" /\ bulk.current = bulk.total)

\* a run has ended after a call that failed and a call that did not
C21_Witness ==
    /\ op.name = "fetchSettled" /\ op.by = "bulk" /\ ~op.ok
    /\ bulk.pc = "idle" /\ bulk.total = 2 /\ bulk.current = 2
    /\ op.before.updatedCount = 1

\* the tag lists of the view-records, in the order of the list
tagLists(mods) == [i \in DOMAIN mods |-> get(mods[i], "tags")]

\* C22: a call of fetchGitHubTags that ends, with tags or with an error, when
\* its identifier is no longer under GithubReleases in the manifest changes
\* neither the manifest nor the tag list of any view-record of the list.
C22_StaleFetchDiscarded ==
    (/\ op.name = "fetchSettled"
     /\ \A i \in DOMAIN recordsOf(pre.val.Sources, GithubReleases) :
           get(recordsOf(pre.val.Sources, GithubReleases)[i], "Id") # op.moduleId)
    => /\ Cfg = pre.val
       /\ tagLists(modules) = tagLists(pre.modules)

\* C23: when a call of fetchGitHubTags for a module has failed and ended,
\* the view-record of the module, the one of its identifier on the list, has
\* no tags and no raised loading flag, and the manifest is the one the call
\* found when its request was answered.
C23_FetchFailureRecovery ==
    (/\ op.name = "fetchSettled" /\ ~op.ok
     /\ \A i, j \in DOMAIN modules : i # j => modules[i].id # modules[j].id) =>
        /\ \A i \in DOMAIN modules :
              (modules[i].id = op.moduleId /\ modules[i].sourceType = GithubReleases)
              => /\ "tags" \notin DOMAIN modules[i]
                 /\ get(modules[i], "isLoadingTags") # TRUE
        /\ Cfg = pre.val
        /\ config # Null

\* the parts of a text between the occurrences of a character
RECURSIVE partsOf(_, _)
partsOf(s, ch) ==
    LET i == indexOf(s, ch)
    IN IF i = 0 THEN <<s>>
       ELSE <<SubSeq(s, 1, i - 1)>> \o partsOf(SubSeq(s, i + 1, Len(s)), ch)

\* n numbers with dots between them: major.minor for 2, major.minor.patch
\* for 3
numbersWithDots(s, n) ==
    LET parts == partsOf(s, ".")
    IN /\ Len(parts) = n
       /\ \A p \in 1..n :
             parts[p] # empty /\ \A k \in 1..Len(parts[p]) : parts[p][k] \in Digits

\* a nonempty text of letters, digits, '_', '.' and '-'
nameWithDots(s) ==
    s # empty /\ \A k \in 1..Len(s) : s[k] \in WordChars \cup {".", "-"}

\* major.minor.patch[-extra].zip: the version ends at the first '-'
artifactFileName(s) ==
    LET n == Len(s) - Len(dotZip)
        body == SubSeq(s, 1, n)
        h == indexOf(body, "-")
    IN /\ n >= 0
       /\ SubSeq(s, n + 1, Len(s)) = dotZip
       /\ IF h = 0 THEN numbersWithDots(body, 3)
          ELSE /\ numbersWithDots(SubSeq(body, 1, h - 1), 3)
               /\ nameWithDots(SubSeq(body, h + 1, n))

\* domain/org or domain/org/repo: the domain ends with a dot and a word
imageReference(s) ==
    LET parts == partsOf(s, "/")
        host == partsOf(parts[1], ".")
        last == host[Len(host)]
    IN /\ Len(parts) \in {2, 3}
       /\ \A p \in 1..Len(parts) : nameWithDots(parts[p])
       /\ Len(host) >= 2
       /\ Len(parts[1]) > Len(last) + 1
       /\ last # empty /\ \A k \in 1..Len(last) : last[k] \in WordChars

\* C24: with a manifest loaded, hasInvalidInputs holds exactly when one of
\* ManifestVersion, PlatformVersion, PlatformImage and PlatformImageTag, or
\* the value of a view-record, is empty once trimmed or is not of the form of
\* its kind: major.minor for ManifestVersion, major.minor.patch for the two
\* versions and for a GithubReleases value, domain/org[/repo] for the image,
\* major.minor.patch[-extra].zip for an AzureBlob value; and it holds after a
\* move, the moved module having no value.
C24_Iff ==
    LET cfg == Cfg
        invalid(text, form(_)) == trim(text) = empty \/ ~form(trim(text))
        version(s) == numbersWithDots(s, 3)
        manifestVersion(s) == numbersWithDots(s, 2)
    IN config # Null =>
          (hasInvalidInputs(Here) <=>
              \/ invalid(cfg.ManifestVersion, manifestVersion)
              \/ invalid(cfg.PlatformVersion, version)
              \/ invalid(cfg.PlatformImage, imageReference)
              \/ invalid(cfg.PlatformImageTag, version)
              \/ \E i \in DOMAIN modules :
                    IF modules[i].sourceType = GithubReleases
                    THEN invalid(modules[i].value, version)
                    ELSE invalid(modules[i].value, artifactFileName))

C24_AggregateValidity ==
    /\ C24_Iff
    /\ op.name = "moveModule" => hasInvalidInputs(Here)

\* C25: after moveModule(id, from, to) for a module listed under from, the
\* identifier is held by the records of exactly one source of the manifest,
\* whether or not the manifest declared a source of the kind to.
C25_MoveKeepsModule ==
    op.name = "moveModule" =>
        LET srcs == Cfg.Sources
        IN Cardinality({ i \in 1..Len(srcs) :
              positionsOf(srcs[i].Modules, srcs[i].Name, op.moduleId) # {} }) = 1

\* C26: when the manifest as loaded has no identifier under both kinds, nor
\* twice under one, nor one that begins with another or holds a '_', no
\* sequence of edits, moves and calls of fetchGitHubTags, made while
\* updateAllGitHubModules runs or not, leaves an identifier under both kinds.
C26_NoDuplication ==
    LET idsUnder(srcs, type) ==
            LET ms == recordsOf(srcs, type)
            IN { moduleIdOf(type, ms[i]) : i \in 1..Len(ms) } \ {empty}
        noneUnderBoth(doc) ==
            idsUnder(doc.Sources, GithubReleases)
                \cap idsUnder(doc.Sources, AzureBlob) = {}
        distinct(doc) ==
            \A type \in ModuleType : distinctIds(recordsOf(doc.Sources, type), type)
        all(doc) == idsUnder(doc.Sources, GithubReleases)
                        \cup idsUnder(doc.Sources, AzureBlob)
        noPrefix(doc) ==
            \A x, y \in all(doc) :
                x # y => ~startsWith(y, x)
    IN (/\ config # Null /\ noneUnderBoth(loaded) /\ distinct(loaded)
        /\ noPrefix(loaded) /\ \A x \in all(loaded) : plain(x))
       => noneUnderBoth(Cfg)

\* C27: when updateAllGitHubModules has ended and every one of its calls
\* was answered with at least one version tag, the Version of every
\* GithubReleases module of the manifest is the first of the processed tags
\* its call was answered with, whatever tags were cached before.
C27_BulkUpdatesToLatest ==
    LET rs == Append(op.before.results,
                     [moduleId |-> op.moduleId, ok |-> op.ok, tags |-> op.tags])
        ms == recordsOf(Cfg.Sources, GithubReleases)
    IN (/\ op.name = "fetchSettled" /\ op.by = "bulk" /\ bulk.pc = "idle"
        /\ Len(rs) = op.before.total
        /\ \A k \in DOMAIN rs : rs[k].ok /\ rs[k].tags # <<>>
        /\ \A i, j \in DOMAIN modules : i # j => modules[i].id # modules[j].id)
       => /\ Len(ms) = Len(rs)
          /\ \A k \in DOMAIN rs :
                \E i \in DOMAIN ms :
                    ms[i].Id = rs[k].moduleId /\ get(ms[i], "Version") = rs[k].tags[1]

\* C28: right after a manifest is loaded, before any edit,
\* generateDiffDescription has no entry, whatever identifiers the sources of
\* the manifest hold, none twice under one kind.
C28_NoSpuriousChanges ==
    (/\ op.name = "generateDiffDescription"
     /\ op.after.name = "handleJsonSubmit" /\ op.after.ok
     /\ \A type \in ModuleType :
           distinctIds(recordsOf(loaded.Sources, type), type))
    => op.changes = <<>>

\* C29: after moveModule(id, from, 'GithubReleases') on a manifest that
\* declares a GithubReleases source, the module is under GithubReleases in
\* the manifest, a call of fetchGitHubTags for id has its request in flight,
\* and the view-record of id has its loading flag raised.
C29_MoveStartsFetch ==
    (/\ op.name = "moveModule" /\ op.to = GithubReleases
     /\ declares(pre.val.Sources, GithubReleases))
    => /\ positionsOf(recordsOf(Cfg.Sources, GithubReleases), GithubReleases,
                      op.moduleId) # {}
       /\ \E n \in DOMAIN fetches :
             fetches[n].moduleId = op.moduleId /\ fetches[n].by = "move"
       /\ \E i \in DOMAIN modules :
             /\ modules[i].id = op.moduleId
             /\ modules[i].sourceType = GithubReleases
             /\ get(modules[i], "isLoadingTags") = TRUE

\* C30: for a manifest loaded with no identifier twice, when a call of
\* fetchGitHubTags is answered with version tags and the module
\* is under GithubReleases, the one view-record of its identifier on the
\* list, the tags of that view-record are the processed tags of the answer,
\* whatever was edited while the request was in flight.
C30_FetchedTagsReachView ==
    LET listed == updateModules(loaded)
    IN (/\ op.name = "fetchSettled" /\ op.ok /\ op.tags # <<>>
        /\ \A i, j \in DOMAIN listed : i # j => listed[i].id # listed[j].id) =>
          \A i \in DOMAIN modules :
              (/\ modules[i].id = op.moduleId
               /\ modules[i].sourceType = GithubReleases
               /\ \A j \in DOMAIN modules \ {i} : modules[j].id # op.moduleId)
              => get(modules[i], "tags") = op.tags

====
